---- MODULE Spec2Model ----
(***************************************************************************)
(* Model of neli-wifi: the blocking Socket and the suspending AsyncSocket  *)
(* (src/src/socket.rs, src/src/async_socket.rs), their three dump queries  *)
(* and the attribute mappers of Interface and Station                      *)
(* (src/src/interface.rs, src/src/station.rs).                             *)
(*                                                                         *)
(* The blocking session is the Socket connect returns, the suspending one  *)
(* what try_from makes of that Socket.  The two uses of the connection are *)
(* run side by side against the same kernel: every query is issued on      *)
(* both, and every datagram the kernel emits is queued for both, so the    *)
(* two forms can be compared call by call.                                 *)
(***************************************************************************)
EXTENDS Integers, Sequences, FiniteSets, TLC

\* ------------------------------------------------------------------ bounds
\* Number of query calls issued on a session in one run.
MaxCalls == 2
\* Messages and read failures the channel produces in one run.
MaxMsgs == 3
\* Messages in one datagram (one receive_batch).
MaxBatch == 2

\* ------------------------------------------------------- options and bytes
None == <<>>
Some(v) == <<v>>

RECURSIVE from_le_bytes(_)
\* little-endian unsigned value of a byte sequence
from_le_bytes(bytes) ==
    IF bytes = <<>> THEN 0
    ELSE Head(bytes) + 256 * from_le_bytes(Tail(bytes))

\* i8::from_le_bytes: one byte read as two's complement
i8_from_byte(b) == IF b < 128 THEN b ELSE b - 256

Ok(v) == [tag |-> "Ok", val |-> <<v>>]
DeError == [tag |-> "DeError", val |-> <<>>]
Panic == [tag |-> "Panic", val |-> <<>>]

\* An attribute as neli hands it to the mappers: a type of the attribute
\* space of its level and the raw payload bytes.
Attr(t, d) == [nla_type |-> t, nla_payload |-> d]

\* Attribute::get_payload_as_with_len::<Vec<u8>>: the payload bytes verbatim.
get_payload_as_with_len(attr) == Ok(attr.nla_payload)

\* get_payload_as reading the scalar most significant byte first.
get_payload_as_big_endian(attr, width) ==
    IF Len(attr.nla_payload) = width
    THEN Ok(from_le_bytes([i \in 1..width |-> attr.nla_payload[width + 1 - i]]))
    ELSE DeError

\* Attribute::get_payload_as::<uN>: the fixed-width little-endian scalar;
\* the caller states the width in bytes.
get_payload_as(attr, width) ==
    IF Len(attr.nla_payload) = width
    THEN Ok(from_le_bytes(attr.nla_payload))
    ELSE DeError

\* get_payload_as::<i8> reading the byte as unsigned.
get_payload_as_i8_as_unsigned(attr) ==
    IF Len(attr.nla_payload) = 1
    THEN Ok(attr.nla_payload[1])
    ELSE DeError

\* Attribute::get_payload_as::<i8>
get_payload_as_i8(attr) ==
    IF Len(attr.nla_payload) = 1
    THEN Ok(i8_from_byte(attr.nla_payload[1]))
    ELSE DeError

\* AttrHandle::get_attribute: the first attribute of the given type.
get_attribute(attrs, t) ==
    LET hits == {i \in 1..Len(attrs) : attrs[i].nla_type = t}
    IN IF hits = {} THEN None
       ELSE Some(attrs[CHOOSE i \in hits : \A j \in hits : i <= j])

\* ------------------------------------------------------ Interface mapper
\* In the mappers, acc is the local `res` of try_from: the record so far.
InterfaceDefault ==
    [index |-> None, ssid |-> None, mac |-> None, name |-> None,
     frequency |-> None, channel |-> None, power |-> None, phy |-> None,
     device |-> None]

\* InterfaceArm rejecting the attribute types it has no arm for.
InterfaceArm_unknown_fails(acc, attr) ==
    LET t == attr.nla_type
        bytes == get_payload_as_with_len(attr)
        u32 == get_payload_as(attr, 4)
        u64 == get_payload_as(attr, 8)
        set(r, upd) == IF r.tag = "Ok" THEN Ok(upd) ELSE DeError
    IN CASE t = "AttrIfindex" -> set(bytes, [acc EXCEPT !.index = bytes.val])
         [] t = "AttrSsid" -> set(bytes, [acc EXCEPT !.ssid = bytes.val])
         [] t = "AttrMac" -> set(bytes, [acc EXCEPT !.mac = bytes.val])
         [] t = "AttrIfname" -> set(bytes, [acc EXCEPT !.name = bytes.val])
         [] t = "AttrWiphyFreq" -> set(u32, [acc EXCEPT !.frequency = u32.val])
         [] t = "AttrChannelWidth" -> set(u32, [acc EXCEPT !.channel = u32.val])
         [] t = "AttrWiphyTxPowerLevel" -> set(u32, [acc EXCEPT !.power = u32.val])
         [] t = "AttrWiphy" -> set(u32, [acc EXCEPT !.phy = u32.val])
         [] t = "AttrWdev" -> set(u64, [acc EXCEPT !.device = u64.val])
         [] OTHER -> DeError

\* One arm of the match in Interface::try_from: the record after `attr`,
\* or the DeError the `?` of that arm returns.
InterfaceArm(acc, attr) ==
    LET t == attr.nla_type
        bytes == get_payload_as_with_len(attr)
        u32 == get_payload_as(attr, 4)
        u64 == get_payload_as(attr, 8)
        set(r, upd) == IF r.tag = "Ok" THEN Ok(upd) ELSE DeError
    IN CASE t = "AttrIfindex" -> set(bytes, [acc EXCEPT !.index = bytes.val])
         [] t = "AttrSsid" -> set(bytes, [acc EXCEPT !.ssid = bytes.val])
         [] t = "AttrMac" -> set(bytes, [acc EXCEPT !.mac = bytes.val])
         [] t = "AttrIfname" -> set(bytes, [acc EXCEPT !.name = bytes.val])
         [] t = "AttrWiphyFreq" -> set(u32, [acc EXCEPT !.frequency = u32.val])
         [] t = "AttrChannelWidth" -> set(u32, [acc EXCEPT !.channel = u32.val])
         [] t = "AttrWiphyTxPowerLevel" -> set(u32, [acc EXCEPT !.power = u32.val])
         [] t = "AttrWiphy" -> set(u32, [acc EXCEPT !.phy = u32.val])
         [] t = "AttrWdev" -> set(u64, [acc EXCEPT !.device = u64.val])
         [] OTHER -> Ok(acc)

RECURSIVE InterfaceScan(_, _)
\* the for loop of Interface::try_from
InterfaceScan(attrs, acc) ==
    IF attrs = <<>> THEN Ok(acc)
    ELSE LET r == InterfaceArm(acc, Head(attrs))
         IN IF r.tag = "Ok" THEN InterfaceScan(Tail(attrs), r.val[1]) ELSE r

\* Interface::try_from iterating from the last attribute to the first.
InterfaceTryFrom_backwards(attrs) ==
    InterfaceScan([i \in 1..Len(attrs) |-> attrs[Len(attrs) + 1 - i]],
                  InterfaceDefault)

\* Interface::try_from
InterfaceTryFrom(attrs) == InterfaceScan(attrs, InterfaceDefault)

\* ------------------------------------------------- nested attribute trees
\* Nl80211StaInfo: the station-info attribute space (numeric type -> name).
Nl80211StaInfo(n) ==
    CASE n = 1 -> "StaInfoInactiveTime"
      [] n = 2 -> "StaInfoRxBytes"
      [] n = 3 -> "StaInfoTxBytes"
      [] n = 7 -> "StaInfoSignal"
      [] n = 8 -> "StaInfoTxBitrate"
      [] n = 9 -> "StaInfoRxPackets"
      [] n = 10 -> "StaInfoTxPackets"
      [] n = 11 -> "StaInfoTxRetries"
      [] n = 12 -> "StaInfoTxFailed"
      [] n = 13 -> "StaInfoSignalAvg"
      [] n = 14 -> "StaInfoRxBitrate"
      [] n = 16 -> "StaInfoConnectedTime"
      [] n = 18 -> "StaInfoBeaconLoss"
      [] n = 19 -> "StaInfoTOffset"
      [] n = 23 -> "StaInfoRxBytes64"
      [] n = 24 -> "StaInfoTxBytes64"
      [] n = 28 -> "StaInfoRxDropMisc"
      [] n = 29 -> "StaInfoBeaconRx"
      [] n = 30 -> "StaInfoBeaconSignalAvg"
      [] n = 32 -> "StaInfoRxDuration"
      [] n = 34 -> "StaInfoAckSignal"
      [] n = 35 -> "StaInfoAckSignalAvg"
      [] n = 39 -> "StaInfoTxDuration"
      [] OTHER -> "UnrecognizedVariant"

\* Nl80211RateInfo: the rate-info attribute space.
Nl80211RateInfo(n) ==
    CASE n = 1 -> "RateInfoBitrate"
      [] n = 2 -> "RateInfoMcs"
      [] n = 5 -> "RateInfoBitrate32"
      [] OTHER -> "UnrecognizedVariant"

\* Nl80211Bss: the BSS attribute space.
Nl80211Bss(n) ==
    CASE n = 1 -> "BssBssid"
      [] n = 2 -> "BssFrequency"
      [] OTHER -> "UnrecognizedVariant"

TypeSpace(space, n) ==
    CASE space = "StaInfo" -> Nl80211StaInfo(n)
      [] space = "RateInfo" -> Nl80211RateInfo(n)
      [] space = "Bss" -> Nl80211Bss(n)

\* padding of an attribute of length len to 4-byte alignment
AlignTo4(len) == ((len + 3) \div 4) * 4

RECURSIVE ParseAttrs(_, _)
\* The attribute sequence framed in `bytes`: each attribute is
\* {length u16 (header included), type u16 whose two top bits are the nested
\* and network-order markers, payload, padding to 4 bytes}.  DeError when a
\* header does not fit or declares a length outside the available bytes.
ParseAttrs(bytes, space) ==
    IF bytes = <<>> THEN Ok(<<>>)
    ELSE IF Len(bytes) < 4 THEN DeError
    ELSE LET nla_len == from_le_bytes(SubSeq(bytes, 1, 2))
             nla_type == from_le_bytes(SubSeq(bytes, 3, 4)) % 16384
             next == IF AlignTo4(nla_len) < Len(bytes)
                     THEN AlignTo4(nla_len) ELSE Len(bytes)
         IN IF nla_len < 4 \/ nla_len > Len(bytes) THEN DeError
            ELSE LET rest == ParseAttrs(SubSeq(bytes, next + 1, Len(bytes)), space)
                 IN IF rest.tag = "Ok"
                    THEN Ok(<<Attr(TypeSpace(space, nla_type),
                                   SubSeq(bytes, 5, nla_len))>> \o rest.val[1])
                    ELSE DeError

\* Attribute::get_attr_handle::<T>: the payload re-parsed as a nested tree.
get_attr_handle(attr, space) == ParseAttrs(attr.nla_payload, space)

\* --------------------------------------------------------- Station mapper
StationDefault ==
    [bssid |-> None, inactive_time |-> None, rx_bytes |-> None,
     rx_packets |-> None, tx_bytes |-> None, tx_packets |-> None,
     tx_retries |-> None, tx_failed |-> None, beacon_rx |-> None,
     beacon_loss |-> None, rx_drop_misc |-> None, signal |-> None,
     average_signal |-> None, beacon_signal_avg |-> None, t_offset |-> None,
     tx_bitrate |-> None, rx_bitrate |-> None, rx_duration |-> None,
     tx_duration |-> None, ack_signal |-> None, ack_signal_avg |-> None,
     connected_time |-> None]

\* Bitrate32 falling back to the legacy 16-bit bitrate.
Bitrate32_legacy_fallback(attr) ==
    LET h == get_attr_handle(attr, "RateInfo")
    IN IF h.tag # "Ok" THEN DeError
       ELSE LET rate == get_attribute(h.val[1], "RateInfoBitrate32")
                legacy == get_attribute(h.val[1], "RateInfoBitrate")
            IN IF rate = None
               THEN IF legacy = None THEN Ok(None)
                    ELSE Ok(Some(from_le_bytes(legacy[1].nla_payload)))
               ELSE LET v == get_payload_as(rate[1], 4)
                    IN IF v.tag = "Ok" THEN Ok(v.val) ELSE DeError

\* The StaInfoTxBitrate / StaInfoRxBitrate arm: the 32-bit bitrate of the
\* nested rate-info tree, None when it has none, DeError from either `?`.
Bitrate32(attr) ==
    LET h == get_attr_handle(attr, "RateInfo")
    IN IF h.tag # "Ok" THEN DeError
       ELSE LET rate == get_attribute(h.val[1], "RateInfoBitrate32")
            IN IF rate = None THEN Ok(None)
               ELSE LET v == get_payload_as(rate[1], 4)
                    IN IF v.tag = "Ok" THEN Ok(v.val) ELSE DeError

\* StationArm with the 32-bit byte counters assigned unconditionally.
StationArm_legacy_overwrites(acc, attr) ==
    LET t == attr.nla_type
        u32 == get_payload_as(attr, 4)
        u64 == get_payload_as(attr, 8)
        i8 == get_payload_as_i8(attr)
        rate == Bitrate32(attr)
        set(r, upd) == IF r.tag = "Ok" THEN Ok(upd) ELSE DeError
    IN CASE t = "StaInfoInactiveTime" -> set(u32, [acc EXCEPT !.inactive_time = u32.val])
         [] t = "StaInfoRxBytes64" -> set(u64, [acc EXCEPT !.rx_bytes = u64.val])
         [] t = "StaInfoRxBytes" -> set(u32, [acc EXCEPT !.rx_bytes = u32.val])
         [] t = "StaInfoRxPackets" -> set(u32, [acc EXCEPT !.rx_packets = u32.val])
         [] t = "StaInfoTxBytes64" -> set(u64, [acc EXCEPT !.tx_bytes = u64.val])
         [] t = "StaInfoTxBytes" -> set(u32, [acc EXCEPT !.tx_bytes = u32.val])
         [] t = "StaInfoTxPackets" -> set(u32, [acc EXCEPT !.tx_packets = u32.val])
         [] t = "StaInfoTxRetries" -> set(u32, [acc EXCEPT !.tx_retries = u32.val])
         [] t = "StaInfoTxFailed" -> set(u32, [acc EXCEPT !.tx_failed = u32.val])
         [] t = "StaInfoBeaconLoss" -> set(u32, [acc EXCEPT !.beacon_loss = u32.val])
         [] t = "StaInfoBeaconRx" -> set(u64, [acc EXCEPT !.beacon_rx = u64.val])
         [] t = "StaInfoRxDropMisc" -> set(u64, [acc EXCEPT !.rx_drop_misc = u64.val])
         [] t = "StaInfoSignal" -> set(i8, [acc EXCEPT !.signal = i8.val])
         [] t = "StaInfoSignalAvg" -> set(i8, [acc EXCEPT !.average_signal = i8.val])
         [] t = "StaInfoBeaconSignalAvg" ->
              set(i8, [acc EXCEPT !.beacon_signal_avg = i8.val])
         [] t = "StaInfoTOffset" -> set(u64, [acc EXCEPT !.t_offset = u64.val])
         [] t = "StaInfoTxBitrate" ->
              IF rate.tag # "Ok" THEN DeError
              ELSE IF rate.val[1] = None THEN Ok(acc)
              ELSE Ok([acc EXCEPT !.tx_bitrate = rate.val[1]])
         [] t = "StaInfoTxDuration" -> set(u64, [acc EXCEPT !.tx_duration = u64.val])
         [] t = "StaInfoRxBitrate" ->
              IF rate.tag # "Ok" THEN DeError
              ELSE IF rate.val[1] = None THEN Ok(acc)
              ELSE Ok([acc EXCEPT !.rx_bitrate = rate.val[1]])
         [] t = "StaInfoRxDuration" -> set(u64, [acc EXCEPT !.rx_duration = u64.val])
         [] t = "StaInfoAckSignal" -> set(i8, [acc EXCEPT !.ack_signal = i8.val])
         [] t = "StaInfoAckSignalAvg" -> set(i8, [acc EXCEPT !.ack_signal_avg = i8.val])
         [] t = "StaInfoConnectedTime" ->
              set(u32, [acc EXCEPT !.connected_time = u32.val])
         [] OTHER -> Ok(acc)

\* One arm of the match over the station-info sub-tree in Station::try_from.
StationArm(acc, attr) ==
    LET t == attr.nla_type
        u32 == get_payload_as(attr, 4)
        u64 == get_payload_as(attr, 8)
        i8 == get_payload_as_i8(attr)
        rate == Bitrate32(attr)
        set(r, upd) == IF r.tag = "Ok" THEN Ok(upd) ELSE DeError
    IN CASE t = "StaInfoInactiveTime" -> set(u32, [acc EXCEPT !.inactive_time = u32.val])
         [] t = "StaInfoRxBytes64" -> set(u64, [acc EXCEPT !.rx_bytes = u64.val])
         [] t = "StaInfoRxBytes" ->
              IF acc.rx_bytes = None
              THEN set(u32, [acc EXCEPT !.rx_bytes = u32.val])
              ELSE Ok(acc)
         [] t = "StaInfoRxPackets" -> set(u32, [acc EXCEPT !.rx_packets = u32.val])
         [] t = "StaInfoTxBytes64" -> set(u64, [acc EXCEPT !.tx_bytes = u64.val])
         [] t = "StaInfoTxBytes" ->
              IF acc.tx_bytes = None
              THEN set(u32, [acc EXCEPT !.tx_bytes = u32.val])
              ELSE Ok(acc)
         [] t = "StaInfoTxPackets" -> set(u32, [acc EXCEPT !.tx_packets = u32.val])
         [] t = "StaInfoTxRetries" -> set(u32, [acc EXCEPT !.tx_retries = u32.val])
         [] t = "StaInfoTxFailed" -> set(u32, [acc EXCEPT !.tx_failed = u32.val])
         [] t = "StaInfoBeaconLoss" -> set(u32, [acc EXCEPT !.beacon_loss = u32.val])
         [] t = "StaInfoBeaconRx" -> set(u64, [acc EXCEPT !.beacon_rx = u64.val])
         [] t = "StaInfoRxDropMisc" -> set(u64, [acc EXCEPT !.rx_drop_misc = u64.val])
         [] t = "StaInfoSignal" -> set(i8, [acc EXCEPT !.signal = i8.val])
         [] t = "StaInfoSignalAvg" -> set(i8, [acc EXCEPT !.average_signal = i8.val])
         [] t = "StaInfoBeaconSignalAvg" ->
              set(i8, [acc EXCEPT !.beacon_signal_avg = i8.val])
         [] t = "StaInfoTOffset" -> set(u64, [acc EXCEPT !.t_offset = u64.val])
         [] t = "StaInfoTxBitrate" ->
              IF rate.tag # "Ok" THEN DeError
              ELSE IF rate.val[1] = None THEN Ok(acc)
              ELSE Ok([acc EXCEPT !.tx_bitrate = rate.val[1]])
         [] t = "StaInfoTxDuration" -> set(u64, [acc EXCEPT !.tx_duration = u64.val])
         [] t = "StaInfoRxBitrate" ->
              IF rate.tag # "Ok" THEN DeError
              ELSE IF rate.val[1] = None THEN Ok(acc)
              ELSE Ok([acc EXCEPT !.rx_bitrate = rate.val[1]])
         [] t = "StaInfoRxDuration" -> set(u64, [acc EXCEPT !.rx_duration = u64.val])
         [] t = "StaInfoAckSignal" -> set(i8, [acc EXCEPT !.ack_signal = i8.val])
         [] t = "StaInfoAckSignalAvg" -> set(i8, [acc EXCEPT !.ack_signal_avg = i8.val])
         [] t = "StaInfoConnectedTime" ->
              set(u32, [acc EXCEPT !.connected_time = u32.val])
         [] OTHER -> Ok(acc)

RECURSIVE StationScan(_, _)
\* the for loop over the station-info sub-tree
StationScan(attrs, acc) ==
    IF attrs = <<>> THEN Ok(acc)
    ELSE LET r == StationArm(acc, Head(attrs))
         IN IF r.tag = "Ok" THEN StationScan(Tail(attrs), r.val[1]) ELSE r

\* Station::try_from with the bssid looked up inside the station-info branch.
StationTryFrom_bssid_with_sta_info(attrs) ==
    LET bssid == get_attribute(attrs, "AttrMac")
        acc == IF bssid = None THEN StationDefault
               ELSE [StationDefault EXCEPT !.bssid = Some(bssid[1].nla_payload)]
        info == get_attribute(attrs, "AttrStaInfo")
    IN IF info = None THEN Ok(StationDefault)
       ELSE LET h == get_attr_handle(info[1], "StaInfo")
            IN IF h.tag # "Ok" THEN Panic
               ELSE StationScan(h.val[1], acc)

\* Station::try_from.  The station-info handle is unwrapped: a payload that
\* is not an attribute sequence panics instead of returning the DeError.
StationTryFrom(attrs) ==
    LET bssid == get_attribute(attrs, "AttrMac")
        acc == IF bssid = None THEN StationDefault
               ELSE [StationDefault EXCEPT !.bssid = Some(bssid[1].nla_payload)]
        info == get_attribute(attrs, "AttrStaInfo")
    IN IF info = None THEN Ok(acc)
       ELSE LET h == get_attr_handle(info[1], "StaInfo")
            IN IF h.tag # "Ok" THEN Panic
               ELSE StationScan(h.val[1], acc)

\* ------------------------------------------------------------- Bss mapper
BssDefault == [bssid |-> None, frequency |-> None]

\* One arm of the Bss mapper over the nested BSS tree.
BssArm(acc, attr) ==
    LET t == attr.nla_type
        u32 == get_payload_as(attr, 4)
    IN CASE t = "BssBssid" -> Ok([acc EXCEPT !.bssid = Some(attr.nla_payload)])
         [] t = "BssFrequency" ->
              IF u32.tag = "Ok" THEN Ok([acc EXCEPT !.frequency = u32.val])
              ELSE DeError
         [] OTHER -> Ok(acc)

RECURSIVE BssScan(_, _)
BssScan(attrs, acc) ==
    IF attrs = <<>> THEN Ok(acc)
    ELSE LET r == BssArm(acc, Head(attrs))
         IN IF r.tag = "Ok" THEN BssScan(Tail(attrs), r.val[1]) ELSE r

\* Bss::try_from: skip-unknown, default-on-absence over the nested BSS tree.
BssTryFrom(attrs) ==
    LET bss == get_attribute(attrs, "AttrBss")
    IN IF bss = None THEN Ok(BssDefault)
       ELSE LET h == get_attr_handle(bss[1], "Bss")
            IN IF h.tag # "Ok" THEN DeError
               ELSE BssScan(h.val[1], BssDefault)

\* ------------------------------------------------------ program constants
NL_80211_GENL_VERSION == 1

\* ------------------------------------------------------------- the inputs
\* Family ids `connect` may resolve, interface indexes a caller may pass.
FamilyIds == {28, 29}
IfIndexes == {<<3, 0, 0, 0>>, <<4, 0, 0, 0>>}

\* Attribute trees carried by the data messages of the kernel.
TreeA ==
    <<Attr("AttrIfindex", <<3, 0, 0, 0>>),
      Attr("AttrMac", <<46, 46, 46, 46, 46, 46>>),
      Attr("AttrWiphyFreq", <<108, 9, 0, 0>>),
      Attr("AttrStaInfo", <<5, 0, 7, 0, 218, 0, 0, 0>>),
      Attr("AttrBss", <<8, 0, 2, 0, 108, 9, 0, 0>>)>>
TreeB ==
    <<Attr("AttrIfindex", <<4, 0, 0, 0>>),
      Attr("AttrMac", <<1, 2, 3, 4, 5, 6>>),
      Attr("AttrIftype", <<2, 0, 0, 0>>),
      Attr("AttrStaInfo", <<5, 0, 13, 0, 215, 0, 0, 0>>),
      Attr("AttrBss", <<10, 0, 1, 0, 1, 2, 3, 4, 5, 6, 0, 0>>)>>
\* a tree every mapper fails to decode: scalars with too few bytes
TreeBad ==
    <<Attr("AttrIfindex", <<3, 0, 0, 0>>),
      Attr("AttrWiphyFreq", <<108, 9>>),
      Attr("AttrStaInfo", <<6, 0, 1, 0, 248, 2, 0, 0>>),
      Attr("AttrBss", <<6, 0, 2, 0, 108, 9, 0, 0>>)>>

\* The tree a message payload carries, by its name.
Tree(name) ==
    CASE name = "TreeA" -> TreeA
      [] name = "TreeB" -> TreeB
      [] name = "TreeBad" -> TreeBad

\* A response message: its kind, its payload (None, or the name of the tree
\* it carries) and the number of the request the kernel answers with it
\* (0: an answer to no request).
Msg(t, p) == [nl_type |-> t, nl_payload |-> p, dump |-> 0]

\* Everything that is neither Noop, Error nor Done takes the `_` arm.
DataMsgs ==
    {Msg("Data", Some("TreeA")), Msg("Data", Some("TreeB")),
     Msg("Data", Some("TreeBad")), Msg("Overrun", None)}
Alphabet ==
    DataMsgs \cup {Msg("Noop", None), Msg("Error", None), Msg("Done", None)}

IsData(m) == m.nl_type \notin {"Noop", "Error", "Done"}

\* What one read of the channel yields: a read failure or a batch.
ReadFail == [fail |-> TRUE, msgs |-> <<>>]
Batch(ms) == [fail |-> FALSE, msgs |-> ms]
Datagrams ==
    {ReadFail} \cup
    {Batch(ms) : ms \in UNION {[1..n -> Alphabet] : n \in 1..MaxBatch}}


Forms == {"sync", "async"}
Queries == {"get_interfaces_info", "get_station_info", "get_bss_info"}

\* ------------------------------------------------------------- outcomes
NoOutcome == [kind |-> "None", list |-> <<>>, rec |-> None, err |-> "-"]
OkList(l) == [kind |-> "Ok", list |-> l, rec |-> None, err |-> "-"]
OkRec(r) == [kind |-> "Ok", list |-> <<>>, rec |-> Some(r), err |-> "-"]
ErrOut(e) == [kind |-> "Err", list |-> <<>>, rec |-> None, err |-> e]
PanicOut == [kind |-> "Panic", list |-> <<>>, rec |-> None, err |-> "-"]

\* ------------------------------------------------------ Message Builder
\* The Nlmsghdr/Genlmsghdr a query builds before it sends.
Request(cmd, family_id, attrs) ==
    [nl_type |-> family_id, nl_flags |-> {"Request", "Dump"},
     cmd |-> cmd, version |-> NL_80211_GENL_VERSION, attrs |-> attrs]

\* The index attribute with the bytes of the index in network order.
IfindexAttr_network_order(index) ==
    [nla_nested |-> FALSE, nla_network_order |-> FALSE,
     nla_type |-> "AttrIfindex",
     nla_payload |-> <<index[4], index[3], index[2], index[1]>>]

\* Nlattr::new(false, false, AttrIfindex, index.to_owned())
IfindexAttr(index) ==
    [nla_nested |-> FALSE, nla_network_order |-> FALSE,
     nla_type |-> "AttrIfindex", nla_payload |-> index]

\* The builder with the scan request built from a copy of the station one.
BuildRequest_scan_as_station(q, family_id, index) ==
    CASE q = "get_interfaces_info" -> Request("CmdGetInterface", family_id, <<>>)
      [] q = "get_station_info" ->
           Request("CmdGetStation", family_id, <<IfindexAttr(index)>>)
      [] q = "get_bss_info" ->
           Request("CmdGetStation", family_id, <<IfindexAttr(index)>>)

BuildRequest(q, family_id, index) ==
    CASE q = "get_interfaces_info" -> Request("CmdGetInterface", family_id, <<>>)
      [] q = "get_station_info" ->
           Request("CmdGetStation", family_id, <<IfindexAttr(index)>>)
      [] q = "get_bss_info" ->
           Request("CmdGetScan", family_id, <<IfindexAttr(index)>>)

\* ---------------------------------------------------------- Dump Collector
\* What one iteration of a dump loop decides: go on with the updated locals,
\* return an outcome, or panic.
Continue(ifs, rv) ==
    [ctl |-> "continue", interfaces |-> ifs, retval |-> rv, out |-> NoOutcome]
Return(o) ==
    [ctl |-> "return", interfaces |-> <<>>, retval |-> None, out |-> o]
Abort ==
    [ctl |-> "panic", interfaces |-> <<>>, retval |-> None, out |-> PanicOut]

\* get_attr_handle().try_into() of the `_` arm of each query, for each tree
\* a message may carry.
TryIntoOf ==
    [get_interfaces_info |->
         [TreeA |-> InterfaceTryFrom(TreeA), TreeB |-> InterfaceTryFrom(TreeB),
          TreeBad |-> InterfaceTryFrom(TreeBad)],
     get_station_info |->
         [TreeA |-> StationTryFrom(TreeA), TreeB |-> StationTryFrom(TreeB),
          TreeBad |-> StationTryFrom(TreeBad)],
     get_bss_info |->
         [TreeA |-> BssTryFrom(TreeA), TreeB |-> BssTryFrom(TreeB),
          TreeBad |-> BssTryFrom(TreeBad)]]

\* response.nl_payload.get_payload().unwrap().get_attr_handle().try_into()
\* of the `_` arm of query q: the unwrap panics on a message without payload.
MapPayload(m, q) ==
    IF m.nl_payload = None THEN Panic ELSE TryIntoOf[q][m.nl_payload[1]]

\* In the loop bodies below, m is the message of the iteration and r what
\* MapPayload yields for it, which only the `_` arm looks at.

\* Socket::get_interfaces_info with the record put in front of the list.
Socket_get_interfaces_info_prepend(interfaces, retval, m, r) ==
    CASE m.nl_type = "Noop" -> Continue(interfaces, retval)
      [] m.nl_type = "Error" -> Abort
      [] m.nl_type = "Done" -> Return(OkList(interfaces))
      [] r.tag = "Ok" -> Continue(<<r.val[1]>> \o interfaces, retval)
      [] r.tag = "DeError" -> Return(ErrOut("DecodeError"))
      [] OTHER -> Abort

\* Socket::get_interfaces_info giving up at an empty (Noop) answer.
Socket_get_interfaces_info_noop_ends(interfaces, retval, m, r) ==
    CASE m.nl_type = "Noop" -> Return(OkList(interfaces))
      [] m.nl_type = "Error" -> Abort
      [] m.nl_type = "Done" -> Return(OkList(interfaces))
      [] r.tag = "Ok" -> Continue(Append(interfaces, r.val[1]), retval)
      [] r.tag = "DeError" -> Return(ErrOut("DecodeError"))
      [] OTHER -> Abort

\* Socket::get_interfaces_info, the body of `for response in iter`.
Socket_get_interfaces_info(interfaces, retval, m, r) ==
    CASE m.nl_type = "Noop" -> Continue(interfaces, retval)
      [] m.nl_type = "Error" -> Abort
      [] m.nl_type = "Done" -> Return(OkList(interfaces))
      [] r.tag = "Ok" -> Continue(Append(interfaces, r.val[1]), retval)
      [] r.tag = "DeError" -> Return(ErrOut("DecodeError"))
      [] OTHER -> Abort

\* Socket::get_station_info treating a dump without a station as an error.
Socket_get_station_info_empty_is_error(interfaces, retval, m, r) ==
    CASE m.nl_type = "Noop" -> Continue(interfaces, retval)
      [] m.nl_type = "Error" -> Abort
      [] m.nl_type = "Done" -> Return(ErrOut("NotFound"))
      [] r.tag = "Ok" -> Return(OkRec(r.val[1]))
      [] r.tag = "DeError" -> Return(ErrOut("DecodeError"))
      [] OTHER -> Abort

\* Socket::get_station_info: the `_` arm returns the first record mapped.
Socket_get_station_info(interfaces, retval, m, r) ==
    CASE m.nl_type = "Noop" -> Continue(interfaces, retval)
      [] m.nl_type = "Error" -> Abort
      [] m.nl_type = "Done" -> Return(OkRec(StationDefault))
      [] r.tag = "Ok" -> Return(OkRec(r.val[1]))
      [] r.tag = "DeError" -> Return(ErrOut("DecodeError"))
      [] OTHER -> Abort

\* Socket::get_bss_info
Socket_get_bss_info(interfaces, retval, m, r) ==
    CASE m.nl_type = "Noop" -> Continue(interfaces, retval)
      [] m.nl_type = "Error" -> Abort
      [] m.nl_type = "Done" -> Return(OkRec(BssDefault))
      [] r.tag = "Ok" -> Return(OkRec(r.val[1]))
      [] r.tag = "DeError" -> Return(ErrOut("DecodeError"))
      [] OTHER -> Abort

\* AsyncSocket::get_interfaces_info ignoring an Error message like a Noop.
AsyncSocket_get_interfaces_info_ignore_error(interfaces, retval, m, r) ==
    CASE m.nl_type = "Noop" -> Continue(interfaces, retval)
      [] m.nl_type = "Error" -> Continue(interfaces, retval)
      [] m.nl_type = "Done" -> Return(OkList(interfaces))
      [] r.tag = "Ok" -> Continue(Append(interfaces, r.val[1]), retval)
      [] r.tag = "DeError" -> Return(ErrOut("DecodeError"))
      [] OTHER -> Abort

\* AsyncSocket::get_interfaces_info skipping a message it cannot decode.
AsyncSocket_get_interfaces_info_skip_undecodable(interfaces, retval, m, r) ==
    CASE m.nl_type = "Noop" -> Continue(interfaces, retval)
      [] m.nl_type = "Error" -> Abort
      [] m.nl_type = "Done" -> Return(OkList(interfaces))
      [] r.tag = "Ok" -> Continue(Append(interfaces, r.val[1]), retval)
      [] r.tag = "DeError" -> Continue(interfaces, retval)
      [] OTHER -> Abort

\* AsyncSocket::get_interfaces_info, the body of `for response in res`.
AsyncSocket_get_interfaces_info(interfaces, retval, m, r) ==
    CASE m.nl_type = "Noop" -> Continue(interfaces, retval)
      [] m.nl_type = "Error" -> Abort
      [] m.nl_type = "Done" -> Return(OkList(interfaces))
      [] r.tag = "Ok" -> Continue(Append(interfaces, r.val[1]), retval)
      [] r.tag = "DeError" -> Return(ErrOut("DecodeError"))
      [] OTHER -> Abort

\* AsyncSocket::get_station_info: the `_` arm overwrites retval.
AsyncSocket_get_station_info(interfaces, retval, m, r) ==
    CASE m.nl_type = "Noop" -> Continue(interfaces, retval)
      [] m.nl_type = "Error" -> Abort
      [] m.nl_type = "Done" ->
           Return(OkRec(IF retval = None THEN StationDefault ELSE retval[1]))
      [] r.tag = "Ok" -> Continue(interfaces, Some(r.val[1]))
      [] r.tag = "DeError" -> Return(ErrOut("DecodeError"))
      [] OTHER -> Abort

\* AsyncSocket::get_bss_info with a Noop clearing the record kept so far.
AsyncSocket_get_bss_info_noop_clears(interfaces, retval, m, r) ==
    CASE m.nl_type = "Noop" -> Continue(interfaces, None)
      [] m.nl_type = "Error" -> Abort
      [] m.nl_type = "Done" ->
           Return(OkRec(IF retval = None THEN BssDefault ELSE retval[1]))
      [] r.tag = "Ok" -> Continue(interfaces, Some(r.val[1]))
      [] r.tag = "DeError" -> Return(ErrOut("DecodeError"))
      [] OTHER -> Abort

\* AsyncSocket::get_bss_info
AsyncSocket_get_bss_info(interfaces, retval, m, r) ==
    CASE m.nl_type = "Noop" -> Continue(interfaces, retval)
      [] m.nl_type = "Error" -> Abort
      [] m.nl_type = "Done" ->
           Return(OkRec(IF retval = None THEN BssDefault ELSE retval[1]))
      [] r.tag = "Ok" -> Continue(interfaces, Some(r.val[1]))
      [] r.tag = "DeError" -> Return(ErrOut("DecodeError"))
      [] OTHER -> Abort

\* The loop body of query q in form f.
LoopBody(f, q, interfaces, retval, m, r) ==
    CASE f = "sync" /\ q = "get_interfaces_info" ->
           Socket_get_interfaces_info(interfaces, retval, m, r)
      [] f = "sync" /\ q = "get_station_info" ->
           Socket_get_station_info(interfaces, retval, m, r)
      [] f = "sync" /\ q = "get_bss_info" ->
           Socket_get_bss_info(interfaces, retval, m, r)
      [] f = "async" /\ q = "get_interfaces_info" ->
           AsyncSocket_get_interfaces_info(interfaces, retval, m, r)
      [] f = "async" /\ q = "get_station_info" ->
           AsyncSocket_get_station_info(interfaces, retval, m, r)
      [] f = "async" /\ q = "get_bss_info" ->
           AsyncSocket_get_bss_info(interfaces, retval, m, r)

\* ------------------------------------------------------------------ state
VARIABLES
    sock,        \* [form]: the netlink connection the session talks through
    family_id,   \* [form]: the family id resolved by connect
    pc,          \* [form]: "idle", "loop" (inside the dump loop), "panicked"
    query,       \* [form]: the query of the current (or last) call
    interfaces,  \* [form]: the local `interfaces` of get_interfaces_info
    retval,      \* [form]: the local `retval` of the suspending queries
    res,         \* [form]: messages read and not yet iterated
    chan,        \* [form]: datagrams queued on the socket, oldest first
    outcome,     \* [form]: what the last finished call returned
    callno,      \* [form]: number of calls started on the session
    sent,        \* [form]: the requests the current call handed to send
    nrecv,       \* [form]: reads of the channel by the current call
    seen,        \* [form]: the messages the current call has iterated over
    interface_attr_if_index,
                 \* [form]: the index argument of the current call
    kreq,        \* kernel: requests not yet answered up to Done, oldest first
    emitted      \* kernel: number of messages and read failures produced

\* The mappers on their own: an attribute tree under construction and what
\* the mappers make of it.
VARIABLES
    handler,        \* the top-level attribute tree handed to try_from
    sta_info,       \* station-info sub-attributes not yet framed
    known_handler,  \* handler as it is without the unrecognized attributes
    known_sta_info, \* sta_info without the unrecognized sub-attributes
    record          \* what the mappers return for handler, once applied

svars == <<sock, family_id, pc, query, interfaces, retval, res, chan, outcome,
           callno, sent, nrecv, seen, interface_attr_if_index, kreq, emitted>>
mvars == <<handler, sta_info, known_handler, known_sta_info, record>>
vars == <<svars, mvars>>

NotApplied == [interface |-> None, station |-> None]

\* Socket::connect: a generic netlink connection and the family id the
\* kernel resolves for nl80211 on it.
Socket_connect(id) == [sock |-> "NlFamily::Generic", family_id |-> id]

\* The conversion with the family id left at the default of its type.
AsyncSocket_try_from_default_family(from) ==
    [sock |-> from.sock, family_id |-> 0]

\* impl TryFrom<Socket> for AsyncSocket: the connection of `from` is wrapped
\* and its family id copied.
AsyncSocket_try_from(from) ==
    [sock |-> from.sock, family_id |-> from.family_id]

\* The blocking session is the Socket as connect returns it, the suspending
\* one what AsyncSocket::connect makes of it: `Socket::connect()?.try_into()?`.
Sessions(from) ==
    [f \in Forms |-> IF f = "sync" THEN from ELSE AsyncSocket_try_from(from)]

Init ==
    /\ \E id \in FamilyIds :
         LET s == Sessions(Socket_connect(id))
         IN /\ sock = [f \in Forms |-> s[f].sock]
            /\ family_id = [f \in Forms |-> s[f].family_id]
    /\ pc = [f \in Forms |-> "idle"]
    /\ query = [f \in Forms |-> "none"]
    /\ interfaces = [f \in Forms |-> <<>>]
    /\ retval = [f \in Forms |-> None]
    /\ res = [f \in Forms |-> <<>>]
    /\ chan = [f \in Forms |-> <<>>]
    /\ outcome = [f \in Forms |-> NoOutcome]
    /\ callno = [f \in Forms |-> 0]
    /\ sent = [f \in Forms |-> <<>>]
    /\ nrecv = [f \in Forms |-> 0]
    /\ seen = [f \in Forms |-> <<>>]
    /\ interface_attr_if_index = [f \in Forms |-> None]
    /\ kreq = <<>>
    /\ emitted = 0
    /\ handler = <<>>
    /\ sta_info = <<>>
    /\ known_handler = <<>>
    /\ known_sta_info = <<>>
    /\ record = NotApplied

\* ----------------------------------------------------------------- kernel
RECURSIVE Tag(_, _)
\* The kernel answers its requests in order: a message belongs to the dump
\* of the oldest unanswered request, and Done or Error ends that dump.
Tag(ms, reqs) ==
    IF ms = <<>> THEN [msgs |-> <<>>, reqs |-> reqs]
    ELSE LET m == Head(ms)
             ends == m.nl_type \in {"Done", "Error"}
             t == Tag(Tail(ms), IF ends /\ reqs # <<>> THEN Tail(reqs) ELSE reqs)
         IN [msgs |-> <<[m EXCEPT !.dump = IF reqs = <<>> THEN 0 ELSE Head(reqs)]>>
                      \o t.msgs,
             reqs |-> t.reqs]

Live == {f \in Forms : pc[f] # "panicked"}

\* A session blocked (or suspended) in a read of its socket.
Waiting(f) == pc[f] = "loop" /\ res[f] = <<>> /\ chan[f] = <<>>

\* The kernel (or the channel, for a read failure) produces one datagram,
\* queued on the socket of every live session.  The sessions share nothing
\* and read their queues in order, so a datagram produced while a session
\* still has input to process yields the same runs as one produced once
\* every session in a dump loop waits: only the latter is generated.
Deliver ==
    /\ \E f \in Forms : Waiting(f)
    /\ \A f \in Forms : pc[f] = "loop" => Waiting(f)
    /\ \E d \in Datagrams :
         LET t == Tag(d.msgs, kreq)
             e == emitted + (IF d.fail THEN 1 ELSE Len(d.msgs))
         IN /\ e <= MaxMsgs
            /\ emitted' = e
            /\ kreq' = t.reqs
            /\ chan' = [f \in Forms |->
                          IF f \in Live
                          THEN Append(chan[f], [d EXCEPT !.msgs = t.msgs])
                          ELSE chan[f]]
    /\ UNCHANGED <<sock, family_id, pc, query, interfaces, retval, res, outcome,
                   callno, sent, nrecv, seen, interface_attr_if_index, mvars>>

\* --------------------------------------------------------------- sessions
\* The number of the next request.
NextCall == 1 + (CHOOSE n \in {callno[f] : f \in Forms} :
                    \A f \in Forms : callno[f] <= n)

\* Call with the result of send dropped: the loop is entered all the same.
Call_ignore_send_failure(q, index, ok) ==
    /\ Live # {}
    /\ \A f \in Live : pc[f] = "idle" /\ callno[f] < MaxCalls
    /\ query' = [f \in Forms |-> IF f \in Live THEN q ELSE query[f]]
    /\ callno' = [f \in Forms |-> IF f \in Live THEN NextCall ELSE callno[f]]
    /\ sent' = [f \in Forms |->
                  IF f \in Live THEN <<BuildRequest(q, family_id[f], index)>>
                  ELSE sent[f]]
    /\ nrecv' = [f \in Forms |-> IF f \in Live THEN 0 ELSE nrecv[f]]
    /\ seen' = [f \in Forms |-> IF f \in Live THEN <<>> ELSE seen[f]]
    /\ interfaces' = [f \in Forms |-> IF f \in Live THEN <<>> ELSE interfaces[f]]
    /\ retval' = [f \in Forms |-> IF f \in Live THEN None ELSE retval[f]]
    /\ pc' = [f \in Forms |-> IF f \in Live THEN "loop" ELSE pc[f]]
    /\ outcome' = [f \in Forms |->
                     IF f \in Live
                     THEN NoOutcome
                     ELSE outcome[f]]
    /\ interface_attr_if_index' =
         [f \in Forms |->
            IF f \in Live
            THEN (IF q = "get_interfaces_info" THEN None ELSE Some(index))
            ELSE interface_attr_if_index[f]]
    /\ kreq' = IF ok THEN Append(kreq, NextCall) ELSE kreq
    /\ UNCHANGED <<sock, family_id, res, chan, emitted, mvars>>

\* A caller issues query q on every live session: the request is built and
\* handed to send; `ok` is whether the write succeeds (`?` returns the
\* error otherwise), after which the locals of the dump loop are set up.
Call(q, index, ok) ==
    /\ Live # {}
    /\ \A f \in Live : pc[f] = "idle" /\ callno[f] < MaxCalls
    /\ query' = [f \in Forms |-> IF f \in Live THEN q ELSE query[f]]
    /\ callno' = [f \in Forms |-> IF f \in Live THEN NextCall ELSE callno[f]]
    /\ sent' = [f \in Forms |->
                  IF f \in Live THEN <<BuildRequest(q, family_id[f], index)>>
                  ELSE sent[f]]
    /\ nrecv' = [f \in Forms |-> IF f \in Live THEN 0 ELSE nrecv[f]]
    /\ seen' = [f \in Forms |-> IF f \in Live THEN <<>> ELSE seen[f]]
    /\ interfaces' = [f \in Forms |-> IF f \in Live THEN <<>> ELSE interfaces[f]]
    /\ retval' = [f \in Forms |-> IF f \in Live THEN None ELSE retval[f]]
    /\ pc' = [f \in Forms |-> IF f \in Live /\ ok THEN "loop" ELSE pc[f]]
    /\ outcome' = [f \in Forms |->
                     IF f \in Live
                     THEN (IF ok THEN NoOutcome ELSE ErrOut("TransportError"))
                     ELSE outcome[f]]
    /\ interface_attr_if_index' =
         [f \in Forms |->
            IF f \in Live
            THEN (IF q = "get_interfaces_info" THEN None ELSE Some(index))
            ELSE interface_attr_if_index[f]]
    /\ kreq' = IF ok THEN Append(kreq, NextCall) ELSE kreq
    /\ UNCHANGED <<sock, family_id, res, chan, emitted, mvars>>

\* The effect of one loop iteration on the locals and the position of f.
Apply(f, st) ==
    /\ pc' = [pc EXCEPT ![f] = CASE st.ctl = "continue" -> "loop"
                                 [] st.ctl = "return" -> "idle"
                                 [] OTHER -> "panicked"]
    /\ interfaces' = [interfaces EXCEPT ![f] = st.interfaces]
    /\ retval' = [retval EXCEPT ![f] = st.retval]
    /\ outcome' = [outcome EXCEPT ![f] = st.out]

\* Iterate with the rest of the batch kept by the suspending form as well.
Iterate_keep_rest(f, buf, st) ==
    /\ res' = [res EXCEPT ![f] = Tail(buf)]
    /\ seen' = [seen EXCEPT ![f] = Append(@, Head(buf))]
    /\ Apply(f, st)

\* One iteration over the first message of buf, with st what the loop body
\* decides for it.  The blocking form leaves the rest buffered in its socket;
\* the suspending form drops the rest of the batch when the function ends.
Iterate(f, buf, st) ==
    /\ res' = [res EXCEPT ![f] = IF f = "async" /\ st.ctl # "continue"
                                 THEN <<>> ELSE Tail(buf)]
    /\ seen' = [seen EXCEPT ![f] = Append(@, Head(buf))]
    /\ Apply(f, st)

\* The step of f on the first message of buf.
Handle(f, buf) ==
    Iterate(f, buf, LoopBody(f, query[f], interfaces[f], retval[f], Head(buf),
                             MapPayload(Head(buf), query[f])))

\* Blocking form: one `next` of the socket iterator and one run of the loop
\* body.  The iterator reads a datagram when it has nothing buffered; an Err
\* item is unwrapped, which panics.
SyncNext ==
    LET f == "sync"
        reads == res[f] = <<>>
    IN /\ pc[f] = "loop"
       /\ reads => chan[f] # <<>>
       /\ nrecv' = [nrecv EXCEPT ![f] = @ + (IF reads THEN 1 ELSE 0)]
       /\ chan' = [chan EXCEPT ![f] = IF reads THEN Tail(@) ELSE @]
       /\ IF reads /\ Head(chan[f]).fail
          THEN /\ Apply(f, Abort)
               /\ UNCHANGED <<res, seen>>
          ELSE Handle(f, IF reads THEN Head(chan[f]).msgs ELSE res[f])
       /\ UNCHANGED <<sock, family_id, query, callno, sent, interface_attr_if_index,
                      kreq, emitted, mvars>>

\* The blocking session has input to process.  The sessions share nothing,
\* so their steps commute: the suspending one is stepped when the blocking
\* one has nothing to do, which leaves every run of each session in place.
SyncBusy == pc["sync"] = "loop" /\ ~Waiting("sync")

\* Suspending form: `self.sock.recv(&mut buf).await?` at the head of `loop`;
\* a read failure is returned to the caller.
AsyncRecv ==
    LET f == "async"
    IN /\ ~SyncBusy
       /\ pc[f] = "loop"
       /\ res[f] = <<>>
       /\ chan[f] # <<>>
       /\ nrecv' = [nrecv EXCEPT ![f] = @ + 1]
       /\ chan' = [chan EXCEPT ![f] = Tail(@)]
       /\ IF Head(chan[f]).fail
          THEN /\ Apply(f, Return(ErrOut("TransportError")))
               /\ UNCHANGED res
          ELSE /\ res' = [res EXCEPT ![f] = Head(chan[f]).msgs]
               /\ UNCHANGED <<pc, interfaces, retval, outcome>>
       /\ UNCHANGED <<sock, family_id, query, callno, sent, seen,
                      interface_attr_if_index, kreq, emitted, mvars>>

\* Suspending form: one iteration of `for response in res`.
AsyncHandle ==
    LET f == "async"
    IN /\ ~SyncBusy
       /\ pc[f] = "loop"
       /\ res[f] # <<>>
       /\ Handle(f, res[f])
       /\ UNCHANGED <<sock, family_id, query, callno, sent, nrecv, chan,
                      interface_attr_if_index, kreq, emitted, mvars>>

Next ==
    \/ \E q \in Queries, index \in IfIndexes, ok \in BOOLEAN : Call(q, index, ok)
    \/ Deliver
    \/ SyncNext
    \/ AsyncRecv
    \/ AsyncHandle

Spec == Init /\ [][Next]_vars

\* A thread inside a blocking call runs; a suspended future is polled again
\* once its socket is readable.  A session with input thus takes its step.
FairSpec ==
    Spec /\ WF_vars(SyncNext) /\ WF_vars(AsyncRecv) /\ WF_vars(AsyncHandle)

\* ------------------------------------------------------ the mappers alone
\* Attributes pushed onto a tree under construction (top-level attributes
\* plus station-info sub-attributes) in one run.
MaxAttrs == 2

\* A sub-attribute as it is framed: numeric type and payload bytes.
Nlattr(n, payload) == [nla_type |-> n, nla_payload |-> payload]

Zeros(k) == [i \in 1..k |-> 0]

\* One framed attribute: {length u16 with the header, type u16, payload,
\* padding to 4 bytes}, as in the payloads of the station test.
Nlattr_to_bytes(a) ==
    LET nla_len == 4 + Len(a.nla_payload)
    IN <<nla_len % 256, nla_len \div 256, a.nla_type % 256, a.nla_type \div 256>>
       \o a.nla_payload \o Zeros(AlignTo4(nla_len) - nla_len)

RECURSIVE to_bytes(_)
\* a sequence of sub-attributes framed one after the other
to_bytes(attrs) ==
    IF attrs = <<>> THEN <<>>
    ELSE Nlattr_to_bytes(Head(attrs)) \o to_bytes(Tail(attrs))

\* Rate-info sub-trees: the 32-bit bitrate, the legacy 16-bit bitrate, both.
RateInfo32 == to_bytes(<<Nlattr(5, <<16, 4, 0, 0>>)>>)
RateInfoLegacy == to_bytes(<<Nlattr(1, <<44, 1>>), Nlattr(2, <<13>>)>>)
RateInfoBoth ==
    to_bytes(<<Nlattr(1, <<44, 1>>), Nlattr(5, <<16, 4, 0, 0>>), Nlattr(2, <<13>>)>>)

\* Nested payloads that are not attribute sequences: a header cut after three
\* bytes, a header that declares nine bytes where four are available.
RateInfoTruncated == <<8, 0, 5>>
StaInfoOverrun == <<9, 0, 7, 0>>

\* Station-info sub-attributes no arm of Station::try_from matches.
StaInfoUnrecognized ==
    {Nlattr(17, <<254, 0, 0, 0, 170, 0, 0, 0>>), Nlattr(4, <<7>>)}

\* Station-info sub-attributes the kernel may send.
StaInfoPool ==
    {Nlattr(2, <<140, 235, 0, 0>>),
     Nlattr(23, <<236, 194, 1, 0, 0, 0, 0, 0>>),
     Nlattr(3, <<135, 232, 0, 0>>),
     Nlattr(24, <<135, 232, 1, 0, 0, 0, 0, 0>>),
     Nlattr(7, <<218>>), Nlattr(7, <<38>>), Nlattr(13, <<215>>),
     Nlattr(30, <<128>>), Nlattr(34, <<127>>), Nlattr(35, <<255>>),
     Nlattr(8, RateInfo32), Nlattr(8, RateInfoLegacy), Nlattr(8, RateInfoBoth),
     Nlattr(14, RateInfo32), Nlattr(14, RateInfoLegacy), Nlattr(14, <<>>),
     Nlattr(1, <<248, 2, 0, 0>>), Nlattr(1, <<248, 2>>),
     Nlattr(23, <<236, 194, 1, 0>>), Nlattr(16, <<226, 29, 0, 0>>),
     Nlattr(8, RateInfoTruncated)}
    \cup StaInfoUnrecognized

\* Top-level attribute types no mapper matches.
Unrecognized == {"AttrIftype", "AttrGeneration"}

\* Top-level attributes the kernel may send.
AttrPool ==
    {Attr("AttrIfindex", <<3, 0, 0, 0>>), Attr("AttrIfname", <<119, 108>>),
     Attr("AttrWiphy", <<0, 0, 0, 0>>),
     Attr("AttrWdev", <<1, 0, 0, 0, 0, 0, 0, 0>>), Attr("AttrWdev", <<1, 0, 0, 0>>),
     Attr("AttrMac", <<255, 255, 255, 255, 255, 255>>),
     Attr("AttrMac", <<1, 2, 3, 4, 5, 6>>),
     Attr("AttrSsid", <<101, 100>>),
     Attr("AttrWiphyFreq", <<108, 9, 0, 0>>), Attr("AttrWiphyFreq", <<108, 9>>),
     Attr("AttrChannelWidth", <<1, 0, 0, 0>>),
     Attr("AttrWiphyTxPowerLevel", <<164, 6, 0, 0>>),
     Attr("AttrStaInfo", <<>>), Attr("AttrStaInfo", StaInfoOverrun),
     Attr("AttrIftype", <<2, 0, 0, 0>>), Attr("AttrGeneration", <<5, 0, 0, 0>>)}

\* Attributes pushed so far; a framed station-info attribute counts as the
\* sub-attributes it frames.
Pushed(tree, subs) ==
    LET RECURSIVE Weight(_)
        Weight(t) ==
            IF t = <<>> THEN 0
            ELSE (IF /\ Head(t).nla_type = "AttrStaInfo"
                     /\ Head(t).nla_payload \notin {<<>>, StaInfoOverrun}
                  THEN Len(get_attr_handle(Head(t), "StaInfo").val[1])
                  ELSE 1) + Weight(Tail(t))
    IN Weight(tree) + Len(subs)

\* The kernel appends a top-level attribute to the message.
PushAttr ==
    /\ record = NotApplied
    /\ sta_info = <<>>
    /\ Pushed(handler, sta_info) < MaxAttrs
    /\ \E attr \in AttrPool :
          /\ handler' = Append(handler, attr)
          /\ known_handler' = IF attr.nla_type \in Unrecognized THEN known_handler
                              ELSE Append(known_handler, attr)
    /\ UNCHANGED <<sta_info, known_sta_info, record, svars>>

\* The kernel appends a sub-attribute to the station-info it is building.
PushStaInfo ==
    /\ record = NotApplied
    /\ Pushed(handler, sta_info) < MaxAttrs
    /\ \E sub \in StaInfoPool :
          /\ sta_info' = Append(sta_info, sub)
          /\ known_sta_info' = IF sub \in StaInfoUnrecognized THEN known_sta_info
                               ELSE Append(known_sta_info, sub)
    /\ UNCHANGED <<handler, known_handler, record, svars>>

\* The station-info under construction is framed into an AttrStaInfo.
FrameStaInfo ==
    /\ record = NotApplied
    /\ sta_info # <<>>
    /\ handler' = Append(handler, Attr("AttrStaInfo", to_bytes(sta_info)))
    /\ known_handler' =
           Append(known_handler, Attr("AttrStaInfo", to_bytes(known_sta_info)))
    /\ sta_info' = <<>>
    /\ known_sta_info' = <<>>
    /\ UNCHANGED <<record, svars>>

\* handler.try_into() for Interface and for Station.
TryInto ==
    /\ record = NotApplied
    /\ sta_info = <<>>
    /\ record' = [interface |-> Some(InterfaceTryFrom(handler)),
                  station |-> Some(StationTryFrom(handler))]
    /\ UNCHANGED <<handler, sta_info, known_handler, known_sta_info, svars>>

MapperNext ==
    \/ PushAttr
    \/ PushStaInfo
    \/ FrameStaInfo
    \/ TryInto

\* The mappers do not depend on the session: one family id is enough.
MapperInit == Init /\ \A f \in Forms : family_id[f] = 28

MapperSpec == MapperInit /\ [][MapperNext]_vars

\* ------------------------------------------------------------ properties
\* The domain mapper query q applies to the tree of a data message.
Mapper(q, attrs) ==
    CASE q = "get_interfaces_info" -> InterfaceTryFrom(attrs)
      [] q = "get_station_info" -> StationTryFrom(attrs)
      [] q = "get_bss_info" -> BssTryFrom(attrs)

\* The record a data message maps to under query q ("Panic" without payload).
Mapped(q, m) ==
    IF m.nl_payload = None THEN Panic ELSE TryIntoOf[q][m.nl_payload[1]]

DefaultOf(q) ==
    CASE q = "get_station_info" -> StationDefault
      [] q = "get_bss_info" -> BssDefault

RECURSIVE Flatten(_)
Flatten(ds) == IF ds = <<>> THEN <<>> ELSE Head(ds).msgs \o Flatten(Tail(ds))

RECURSIVE BeforeDone(_)
\* the messages that precede the first Done
BeforeDone(ms) ==
    IF ms = <<>> \/ Head(ms).nl_type = "Done" THEN <<>>
    ELSE <<Head(ms)>> \o BeforeDone(Tail(ms))

HasKind(ms, k) == \E i \in 1..Len(ms) : ms[i].nl_type = k

\* What has reached the socket of f since its current call began: iterated
\* over, buffered, or still queued.
Arrived(f) == seen[f] \o res[f] \o Flatten(chan[f])

\* The call of f has ended (returned or panicked).
Finished(f) == callno[f] > 0 /\ pc[f] # "loop"
Succeeded(f) == Finished(f) /\ outcome[f].kind = "Ok"
SingleTarget(f) == query[f] \in {"get_station_info", "get_bss_info"}

RECURSIVE RecordsOf(_, _)
\* the records of the data messages of ms, in order
RecordsOf(q, ms) ==
    IF ms = <<>> THEN <<>>
    ELSE IF IsData(Head(ms))
         THEN <<Mapped(q, Head(ms)).val[1]>> \o RecordsOf(q, Tail(ms))
         ELSE RecordsOf(q, Tail(ms))

\* C1: a get_interfaces_info call that returns, in either form, returns
\* exactly the records mapped from the data messages it received before the
\* first Done, in arrival order; Noop messages contribute nothing.
C1_InterfacesInArrivalOrder ==
    \A f \in Forms :
        (query[f] = "get_interfaces_info" /\ Succeeded(f))
        => outcome[f].list = RecordsOf(query[f], BeforeDone(seen[f]))

\* C1 witness: both forms have returned, in arrival order, the two different
\* records of a dump of two data messages and Done.
C1_Witness ==
    \A f \in Forms :
        /\ query[f] = "get_interfaces_info" /\ Succeeded(f)
        /\ [i \in 1..Len(seen[f]) |-> seen[f][i].nl_type]
             = <<"Data", "Data", "Done">>
        /\ Len(outcome[f].list) = 2
        /\ outcome[f].list[1] # outcome[f].list[2]
        /\ outcome[f].list = <<InterfaceTryFrom(Tree(seen[f][1].nl_payload[1])).val[1],
                               InterfaceTryFrom(Tree(seen[f][2].nl_payload[1])).val[1]>>

\* C2: get_station_info and get_bss_info, in either form, return the record
\* of the last data message that arrived before Done.
C2_KeepsMostRecent ==
    \A f \in Forms :
        LET ds == SelectSeq(BeforeDone(Arrived(f)), IsData)
        IN (/\ SingleTarget(f) /\ Succeeded(f)
            /\ HasKind(Arrived(f), "Done")
            /\ ds # <<>>
            /\ \A i \in 1..Len(ds) : Mapped(query[f], ds[i]).tag = "Ok")
           => outcome[f].rec = Some(Mapped(query[f], ds[Len(ds)]).val[1])

\* C3: a call whose responses carry an Error before Done never returns a
\* successful result.
C3_ErrorIsFatal ==
    \A f \in Forms :
        HasKind(BeforeDone(Arrived(f)), "Error") => ~Succeeded(f)

\* C4: no call receives a message of the dump of an earlier call of its
\* session.
C4_NoLeftover ==
    \A f \in Forms : \A i \in 1..Len(seen[f]) :
        ~(seen[f][i].dump >= 1 /\ seen[f][i].dump < callno[f])

\* C5: once both forms have ended the same call, they have the same outcome.
C5_FormsAgree ==
    (/\ callno["sync"] = callno["async"]
     /\ Finished("sync") /\ Finished("async"))
    => outcome["sync"] = outcome["async"]

\* C6: a dump of Noop messages followed by Done makes get_interfaces_info
\* return the empty list and the single-target queries the default record.
C6_EmptyDump ==
    \A f \in Forms :
        (/\ seen[f] # <<>>
         /\ seen[f][Len(seen[f])].nl_type = "Done"
         /\ \A i \in 1..(Len(seen[f]) - 1) : seen[f][i].nl_type = "Noop")
        => /\ pc[f] = "idle"
           /\ outcome[f] = IF query[f] = "get_interfaces_info" THEN OkList(<<>>)
                           ELSE OkRec(DefaultOf(query[f]))

\* C6 witness: both forms have returned the default Station from
\* [Noop, Done].
C6_Witness ==
    \A f \in Forms :
        /\ query[f] = "get_station_info"
        /\ Len(seen[f]) = 2
        /\ seen[f][1].nl_type = "Noop" /\ seen[f][2].nl_type = "Done"
        /\ outcome[f] = OkRec(StationDefault)

\* C7: a call returns a successful result only after it has received Done.
C7_SuccessOnlyAfterDone ==
    \A f \in Forms : Succeeded(f) => HasKind(seen[f], "Done")

\* C8: a call hands exactly one request to send, before its first receive,
\* and never sends while in its loop; once it has iterated over an Error
\* message it reads and processes nothing more.
C8_SendOnceStopAtError ==
    [][\A f \in Forms :
          /\ sent'[f] # sent[f]
             => (pc[f] = "idle" /\ Len(sent'[f]) = 1
                 /\ nrecv'[f] = 0 /\ seen'[f] = <<>>)
          /\ pc[f] = "loop" => (Len(sent[f]) = 1 /\ sent'[f] = sent[f])
          /\ (pc[f] = "loop" /\ seen[f] # <<>>
              /\ seen[f][Len(seen[f])].nl_type = "Error")
             => (seen'[f] = seen[f] /\ nrecv'[f] = nrecv[f])
          /\ (seen'[f] # seen[f] /\ seen'[f] # <<>>
              /\ seen'[f][Len(seen'[f])].nl_type = "Error")
             => pc'[f] = "panicked"]_vars

\* C8 witness: a call has sent its one request, read twice and stopped at an
\* Error message.
C8_Witness ==
    \E f \in Forms :
        /\ Len(sent[f]) = 1 /\ nrecv[f] = 2
        /\ Len(seen[f]) = 2 /\ seen[f][2].nl_type = "Error"
        /\ pc[f] = "panicked"

\* C9: a failed read of the channel during the dump loop ends the call, in
\* either form, with TransportError as its error result.
C9_ReadFailureIsReturned ==
    [][\A f \in Forms :
          (/\ pc[f] = "loop" /\ nrecv'[f] = nrecv[f] + 1
           /\ chan[f] # <<>> /\ Head(chan[f]).fail)
          => outcome'[f] = ErrOut("TransportError")]_vars

\* C10: a data message whose mapping fails with a decode error is the last
\* message its call processes, and the call returns that error with no
\* record, whatever it had accumulated.
C10_NoPartialResult ==
    \A f \in Forms : \A i \in 1..Len(seen[f]) :
        (IsData(seen[f][i]) /\ Mapped(query[f], seen[f][i]).tag = "DeError")
        => /\ i = Len(seen[f])
           /\ pc[f] = "idle"
           /\ outcome[f] = ErrOut("DecodeError")

\* C10 witness: both forms had accumulated a record in get_interfaces_info
\* when an undecodable message made the call fail.
C10_Witness ==
    \A f \in Forms :
        /\ query[f] = "get_interfaces_info"
        /\ Len(seen[f]) = 2
        /\ Mapped(query[f], seen[f][1]).tag = "Ok"
        /\ Mapped(query[f], seen[f][2]).tag = "DeError"
        /\ outcome[f] = ErrOut("DecodeError")

\* The command the claim names for each query.
CmdOf(q) ==
    CASE q = "get_interfaces_info" -> "CmdGetInterface"
      [] q = "get_station_info" -> "CmdGetStation"
      [] q = "get_bss_info" -> "CmdGetScan"

\* C11: every request handed to send carries the flags {Request, Dump},
\* version 1, the family id of its session as type and the command of its
\* query; the family id of a session never changes.
C11_RequestEnvelope ==
    /\ [](\A f \in Forms : \A i \in 1..Len(sent[f]) :
            /\ sent[f][i].nl_flags = {"Request", "Dump"}
            /\ sent[f][i].version = 1
            /\ sent[f][i].nl_type = family_id[f]
            /\ sent[f][i].cmd = CmdOf(query[f]))
    /\ [][family_id' = family_id]_vars

\* C11 witness: the second query of a session has sent a get-scan request
\* typed with the family id 29.
C11_Witness ==
    \A f \in Forms :
        /\ callno[f] = 2 /\ query[f] = "get_bss_info"
        /\ family_id[f] = 29
        /\ Len(sent[f]) = 1 /\ sent[f][1].nl_type = 29
        /\ sent[f][1].cmd = "CmdGetScan"

\* C12: the get-interface request carries no attribute; the get-station and
\* get-scan requests carry exactly one, a plain interface-index attribute
\* whose payload is the byte blob the caller passed.
C12_IndexVerbatim ==
    \A f \in Forms : \A i \in 1..Len(sent[f]) :
        IF query[f] = "get_interfaces_info"
        THEN sent[f][i].attrs = <<>>
        ELSE /\ Len(sent[f][i].attrs) = 1
             /\ sent[f][i].attrs[1].nla_type = "AttrIfindex"
             /\ ~sent[f][i].attrs[1].nla_nested
             /\ ~sent[f][i].attrs[1].nla_network_order
             /\ interface_attr_if_index[f] # None
             /\ sent[f][i].attrs[1].nla_payload = interface_attr_if_index[f][1]

\* C12 witness: get_station_info was passed the index blob that the
\* Interface mapper returns for TreeA, and sent those 4 bytes.
C12_Witness ==
    \A f \in Forms :
        /\ query[f] = "get_station_info"
        /\ interface_attr_if_index[f] = InterfaceTryFrom(TreeA).val[1].index
        /\ Len(sent[f]) = 1
        /\ sent[f][1].attrs[1].nla_payload = <<3, 0, 0, 0>>

\* ------------------------------------------------ claims on the mappers
\* The station-info sub-attributes Station::try_from iterates over.
StaInfoOf(tree) ==
    LET info == get_attribute(tree, "AttrStaInfo")
    IN IF info = None \/ get_attr_handle(info[1], "StaInfo").tag # "Ok"
       THEN <<>>
       ELSE get_attr_handle(info[1], "StaInfo").val[1]

\* The payload of attr is not an attribute sequence of the given type space.
Malformed(attr, space) == get_attr_handle(attr, space).tag # "Ok"

\* The station-info attribute Station::try_from looks up in tree is
\* malformed, or frames a tx/rx-bitrate attribute that is.
NestedMalformed(tree) ==
    LET info == get_attribute(tree, "AttrStaInfo")
    IN /\ info # None
       /\ \/ Malformed(info[1], "StaInfo")
          \/ \E i \in 1..Len(StaInfoOf(tree)) :
                /\ StaInfoOf(tree)[i].nla_type \in
                       {"StaInfoTxBitrate", "StaInfoRxBitrate"}
                /\ Malformed(StaInfoOf(tree)[i], "RateInfo")

Has(attrs, t) == \E i \in 1..Len(attrs) : attrs[i].nla_type = t

\* the little-endian value of the first attribute of type t
ValueOf(attrs, t) == from_le_bytes(get_attribute(attrs, t)[1].nla_payload)

Applied == record # NotApplied
StationOk == Applied /\ record.station[1].tag = "Ok"
InterfaceOk == Applied /\ record.interface[1].tag = "Ok"

\* A byte counter reports the 64-bit sub-attribute when the tree has one, the
\* 32-bit one when it has only that, and nothing when it has neither.
Counter(field, subs, wide, narrow) ==
    IF Has(subs, wide) THEN field = Some(ValueOf(subs, wide))
    ELSE IF Has(subs, narrow) THEN field = Some(ValueOf(subs, narrow))
    ELSE field = None

PayloadOf(attrs, t) ==
    attrs[CHOOSE i \in 1..Len(attrs) :
              /\ attrs[i].nla_type = t
              /\ \A j \in i + 1..Len(attrs) : attrs[j].nla_type # t].nla_payload

\* four bytes, least significant first, as an unsigned number
LE4(b) == b[1] + 256 * b[2] + 65536 * b[3] + 16777216 * b[4]
\* eight bytes, least significant first
LE8(b) ==
    LE4(SubSeq(b, 1, 4))
    + (IF SubSeq(b, 5, 8) = <<0, 0, 0, 0>> THEN 0
       ELSE 256 * 16777216 * LE4(SubSeq(b, 5, 8)))

Blob(field, attrs, t) ==
    field = IF Has(attrs, t) THEN Some(PayloadOf(attrs, t)) ELSE None
U32(field, attrs, t) ==
    field = IF Has(attrs, t) THEN Some(LE4(PayloadOf(attrs, t))) ELSE None
U64(field, attrs, t) ==
    field = IF Has(attrs, t) THEN Some(LE8(PayloadOf(attrs, t))) ELSE None

InterfaceTypes ==
    {"AttrIfindex", "AttrSsid", "AttrMac", "AttrIfname", "AttrWiphyFreq",
     "AttrChannelWidth", "AttrWiphyTxPowerLevel", "AttrWiphy", "AttrWdev"}
StationTypes == {"AttrMac", "AttrStaInfo"}

\* the tree without its i-th attribute
Without(attrs, i) == SubSeq(attrs, 1, i - 1) \o SubSeq(attrs, i + 1, Len(attrs))

\* C15: attributes of a type a mapper does not read never change its outcome:
\* the Interface mapper and the Station mapper return for a tree what they
\* return for the tree without its unrecognized attributes and
\* sub-attributes, and what they return without any one top-level attribute
\* that is irrelevant to them, whatever its payload.
C15_UnrecognizedSkipped ==
    Applied =>
        /\ record.interface[1] = InterfaceTryFrom(known_handler)
        /\ record.station[1] = StationTryFrom(known_handler)
        /\ \A i \in 1..Len(handler) :
               /\ handler[i].nla_type \notin InterfaceTypes =>
                      record.interface[1] = InterfaceTryFrom(Without(handler, i))
               /\ handler[i].nla_type \notin StationTypes =>
                      record.station[1] = StationTryFrom(Without(handler, i))

\* station flags (type 17) in front of the signal: the record of the signal
\* alone
C15_Witness ==
    /\ Applied
    /\ handler = <<Attr("AttrStaInfo",
                        <<12, 0, 17, 0, 254, 0, 0, 0, 170, 0, 0, 0,
                          5, 0, 7, 0, 218, 0, 0, 0>>)>>
    /\ known_handler = <<Attr("AttrStaInfo", <<5, 0, 7, 0, 218, 0, 0, 0>>)>>
    /\ record.station[1] = Ok([StationDefault EXCEPT !.signal = Some(-38)])
    /\ record.interface[1] = Ok(InterfaceDefault)

\* a byte as a signed 8-bit two's-complement number
Signed8(b) == ((b + 128) % 256) - 128

\* The signal-strength fields and the station-info types they are read from.
SignalFields ==
    {<<"signal", "StaInfoSignal">>, <<"average_signal", "StaInfoSignalAvg">>,
     <<"beacon_signal_avg", "StaInfoBeaconSignalAvg">>,
     <<"ack_signal", "StaInfoAckSignal">>,
     <<"ack_signal_avg", "StaInfoAckSignalAvg">>}

Carriers(subs, t) ==
    {i \in 1..Len(subs) :
        /\ subs[i].nla_type = t
        /\ Has(get_attr_handle(subs[i], "RateInfo").val[1], "RateInfoBitrate32")}

\* A bitrate field is the 32-bit bitrate of the last carrier, absent when the
\* tree has no carrier.
BitrateIs(field, subs, t) ==
    field = IF Carriers(subs, t) = {} THEN None
            ELSE Some(LE4(PayloadOf(
                     get_attr_handle(
                         subs[CHOOSE i \in Carriers(subs, t) :
                                  \A j \in Carriers(subs, t) : j <= i],
                         "RateInfo").val[1],
                     "RateInfoBitrate32")))

\* C18: tx_bitrate and rx_bitrate come only from the 32-bit bitrate
\* sub-attribute of the nested tx/rx-bitrate tree: its little-endian value
\* when it is present, absent without an error when it is not (the nested
\* payloads being attribute sequences), a legacy 16-bit bitrate in the same
\* tree notwithstanding.
C18_Bitrate32Only ==
    /\ StationOk =>
           /\ BitrateIs(record.station[1].val[1].tx_bitrate, StaInfoOf(handler),
                        "StaInfoTxBitrate")
           /\ BitrateIs(record.station[1].val[1].rx_bitrate, StaInfoOf(handler),
                        "StaInfoRxBitrate")
    /\ Applied /\ ~NestedMalformed(handler)
               /\ (\A i \in 1..Len(StaInfoOf(handler)) :
                       StaInfoOf(handler)[i].nla_type
                           \in {"StaInfoTxBitrate", "StaInfoRxBitrate"})
           => StationOk

\* tx tree with the legacy bitrate only, rx tree with both: absent and 1040
C18_Witness ==
    /\ StationOk
    /\ handler = <<Attr("AttrStaInfo",
                        to_bytes(<<Nlattr(14, RateInfoLegacy), Nlattr(8, RateInfoBoth)>>))>>
    /\ record.station[1].val[1].rx_bitrate = None
    /\ record.station[1].val[1].tx_bitrate = Some(1040)

\* ------------------------------------------------ claims on the sessions
\* A call whose request the kernel never gets: the send failed.
SendFails(f) == callno'[f] # callno[f] /\ kreq' = kreq

\* C19: when sending the request fails, the call returns an error to its
\* caller, having read nothing from the channel and returning no record.
C19_SendFailureReturnsError ==
    [][\A f \in Forms :
          SendFails(f) =>
              /\ pc'[f] = "idle"
              /\ outcome'[f] = ErrOut("TransportError")
              /\ outcome'[f].list = <<>> /\ outcome'[f].rec = None
              /\ nrecv'[f] = 0
              /\ chan'[f] = chan[f] /\ res'[f] = res[f]]_vars

\* the second call of a session fails to send after a first one that read
C19_Witness ==
    \A f \in Forms :
        /\ callno[f] = 2 /\ pc[f] = "idle" /\ Len(sent[f]) = 1
        /\ outcome[f] = ErrOut("TransportError")
        /\ nrecv[f] = 0 /\ seen[f] = <<>>
        /\ emitted > 0

\* What f has still to read: the rest of its batch and the queued datagrams.
Pending(f) == res[f] \o Flatten(chan[f])

\* Nothing but Noop messages in front of the first Done of ms.
NoopsThenDone(ms) ==
    \E k \in 1..Len(ms) :
        /\ ms[k].nl_type = "Done"
        /\ \A i \in 1..k - 1 : ms[i].nl_type = "Noop"

\* f leaves its dump loop in this step.
LeavesLoop(f) == pc[f] = "loop" /\ pc'[f] # "loop"

\* C20: no timeout.  A call leaves its loop only in a step that reads a
\* failure from the channel or iterates over a message other than Noop, so
\* with nothing or only Noop messages delivered it never returns; and a call
\* in its loop with a Done to read leaves the loop, returning successfully
\* when only Noop messages come before that Done.
C20_NoTimeout ==
    /\ [][\A f \in Forms :
            LeavesLoop(f) =>
                \/ nrecv'[f] # nrecv[f] /\ Head(chan[f]).fail
                \/ /\ Len(seen'[f]) = Len(seen[f]) + 1
                   /\ seen'[f][Len(seen'[f])].nl_type # "Noop"]_vars
    /\ \A f \in Forms :
           (pc[f] = "loop" /\ HasKind(Pending(f), "Done")) ~> (pc[f] # "loop")
    /\ \A f \in Forms :
           (pc[f] = "loop" /\ NoopsThenDone(Pending(f)))
               ~> (pc[f] = "idle" /\ outcome[f].kind = "Ok")

\* both forms still inside their loop after every message the channel had
\* to give, all of them Noop
C20_Witness ==
    \A f \in Forms :
        /\ pc[f] = "loop" /\ Waiting(f)
        /\ emitted = MaxMsgs
        /\ Len(seen[f]) = MaxMsgs
        /\ \A i \in 1..Len(seen[f]) : seen[f][i].nl_type = "Noop"

\* ---------------------------------------------- claims on the conversion
\* C21: the suspending session built from a blocking one talks through the
\* connection of that session and has its family id, and every request it
\* sends is typed with the family id the original connect resolved.
C21_ConversionKeepsSession ==
    /\ sock["async"] = sock["sync"]
    /\ family_id["async"] = family_id["sync"]
    /\ \A i \in 1..Len(sent["async"]) :
         sent["async"][i].nl_type = family_id["sync"]

\* C21 witness: the converted session has sent a get-station request typed
\* with the family id 28 that connect resolved.
C21_Witness ==
    /\ family_id["sync"] = 28
    /\ callno["async"] = 1 /\ query["async"] = "get_station_info"
    /\ Len(sent["async"]) = 1 /\ sent["async"][1].nl_type = 28

\* ------------------------------------------- further claims on the mappers
\* C22: when the station-info attribute of a tree, or a tx/rx-bitrate
\* attribute inside it, is not a well-formed attribute sequence, the Station
\* mapper returns a DecodeError, and get_station_info, in both forms, returns
\* that error for the message that carries the tree.
C22_MalformedNestedIsDecodeError ==
    (Applied /\ NestedMalformed(handler)) =>
        /\ record.station[1] = DeError
        /\ \A f \in Forms :
              LoopBody(f, "get_station_info", <<>>, None, Msg("Data", None),
                       record.station[1]) = Return(ErrOut("DecodeError"))

\* The payload of the first attribute of type t in attrs.
FirstPayloadOf(attrs, t) ==
    attrs[CHOOSE i \in 1..Len(attrs) :
              /\ attrs[i].nla_type = t
              /\ \A j \in 1..(i - 1) : attrs[j].nla_type # t].nla_payload

\* The station-info attributes of a tree, without the rest of the tree.
OnlyStaInfo(tree) == SelectSeq(tree, LAMBDA a : a.nla_type = "AttrStaInfo")

\* C23: the bssid of a Station is the payload of the top-level MAC attribute,
\* byte for byte, and every other field comes from the station-info sub-tree
\* alone: the tree stripped of everything but its station-info maps to the
\* same fields, a tree without station-info maps without error to a Station
\* with every field but bssid absent, and the empty tree to the default one.
C23_BssidTopLevelRestNested ==
    /\ StationOk =>
          /\ record.station[1].val[1].bssid =
                 IF Has(handler, "AttrMac")
                 THEN Some(FirstPayloadOf(handler, "AttrMac")) ELSE None
          /\ Ok([record.station[1].val[1] EXCEPT !.bssid = None])
                 = StationTryFrom(OnlyStaInfo(handler))
    /\ (Applied /\ ~Has(handler, "AttrStaInfo")) =>
          /\ StationOk
          /\ [record.station[1].val[1] EXCEPT !.bssid = None] = StationDefault
    /\ (Applied /\ handler = <<>>) => record.station[1] = Ok(StationDefault)

\* C23 witness: a tree with a MAC and a frequency and no station-info maps
\* to a Station that has the six MAC bytes as bssid and nothing else.
C23_Witness ==
    /\ Applied
    /\ handler = <<Attr("AttrMac", <<1, 2, 3, 4, 5, 6>>),
                   Attr("AttrWiphyFreq", <<108, 9, 0, 0>>)>>
    /\ record.station[1] =
           Ok([StationDefault EXCEPT !.bssid = Some(<<1, 2, 3, 4, 5, 6>>)])

\* ------------------------------------------ further claims on the sessions
\* ms without its Noop messages
WithoutNoops(ms) == SelectSeq(ms, LAMBDA m : m.nl_type # "Noop")

RECURSIVE Run(_, _, _, _)
\* Where the dump loop of query q in form f stands after iterating over ms,
\* having started at st.
Run(f, q, ms, st) ==
    IF ms = <<>> \/ st.ctl # "continue" THEN st
    ELSE Run(f, q, Tail(ms),
             LoopBody(f, q, st.interfaces, st.retval, Head(ms),
                      Mapped(q, Head(ms))))

\* C24: Noop messages have no effect on a query.  At every point of a call,
\* in both forms and for the three queries, the locals of the loop, and the
\* outcome once a message has ended the call, are those of the same call
\* running over the messages it has iterated over with every Noop left out.
C24_NoopsHaveNoEffect ==
    \A f \in Forms :
        callno[f] > 0 =>
            LET st == Run(f, query[f], WithoutNoops(seen[f]),
                          Continue(<<>>, None))
            IN IF st.ctl = "continue"
               THEN pc[f] = "loop" =>
                       interfaces[f] = st.interfaces /\ retval[f] = st.retval
               ELSE /\ outcome[f] = st.out
                    /\ pc[f] = IF st.ctl = "return" THEN "idle" ELSE "panicked"

\* C24 witness: a get-scan call over a data message, a Noop and Done has
\* returned the record of the data message in both forms.
C24_Witness ==
    \A f \in Forms :
        /\ query[f] = "get_bss_info" /\ pc[f] = "idle"
        /\ outcome[f] = OkRec(BssTryFrom(TreeA).val[1])
        /\ \E i \in 1..Len(seen[f]) : seen[f][i].nl_type = "Noop"
        /\ \E i \in 1..Len(seen[f]) : seen[f][i].nl_type = "Data"

\* ------------------------------------------------- claims on repeated types
\* Positions i < j of attrs hold attributes of one type.
Repeats(attrs, i, j) == i < j /\ attrs[i].nla_type = attrs[j].nla_type

\* C25: when a tree repeats an attribute type, an Interface is mapped from
\* the last occurrence (the tree without an earlier one maps to the same
\* record, and mac is the payload of the last MAC attribute), whereas a
\* Station is mapped from the first occurrence of the MAC and of the
\* station-info attribute (the tree without a later one maps to the same
\* result, and bssid is the payload of the first MAC attribute).
C25_LastWinsFirstWins ==
    /\ \A i, j \in 1..Len(handler) :
          Repeats(handler, i, j) =>
             /\ (InterfaceOk /\ handler[j].nla_type \in InterfaceTypes) =>
                    record.interface[1] = InterfaceTryFrom(Without(handler, i))
             /\ (Applied /\ handler[j].nla_type \in StationTypes) =>
                    record.station[1] = StationTryFrom(Without(handler, j))
    /\ (InterfaceOk /\ Has(handler, "AttrMac")) =>
          record.interface[1].val[1].mac = Some(PayloadOf(handler, "AttrMac"))
    /\ (StationOk /\ Has(handler, "AttrMac")) =>
          record.station[1].val[1].bssid = Some(FirstPayloadOf(handler, "AttrMac"))

\* C25 witness: of two MAC attributes the Interface has the second as mac,
\* the Station the first as bssid.
C25_Witness ==
    /\ handler = <<Attr("AttrMac", <<255, 255, 255, 255, 255, 255>>),
                   Attr("AttrMac", <<1, 2, 3, 4, 5, 6>>)>>
    /\ InterfaceOk /\ StationOk
    /\ record.interface[1].val[1].mac = Some(<<1, 2, 3, 4, 5, 6>>)
    /\ record.station[1].val[1].bssid = Some(<<255, 255, 255, 255, 255, 255>>)

\* ------------------------------------------ claims on the classification
\* Session f iterates over one more message in this step.
Iterates(f) == Len(seen'[f]) = Len(seen[f]) + 1

\* The message f iterates over in this step.
Iterated(f) == seen'[f][Len(seen'[f])]

\* C26: every message a session iterates over is handled by the rule of its
\* kind.  Noop: the locals stay as they are and the loop goes on.  Error: the
\* call aborts.  Done: the call returns successfully.  Any other kind, an
\* overrun notice included: the message has a payload, which is handed to the
\* mapper of the query, and the call does not abort on it.
C26_FourRules ==
    [][\A f \in Forms :
          Iterates(f) =>
             CASE Iterated(f).nl_type = "Noop" ->
                    /\ pc'[f] = "loop"
                    /\ interfaces'[f] = interfaces[f] /\ retval'[f] = retval[f]
               [] Iterated(f).nl_type = "Error" -> pc'[f] = "panicked"
               [] Iterated(f).nl_type = "Done" ->
                    pc'[f] = "idle" /\ outcome'[f].kind = "Ok"
               [] OTHER ->
                    /\ Iterated(f).nl_payload # None
                    /\ pc'[f] # "panicked"
                    /\ LET r == Mapped(query[f], Iterated(f))
                       IN IF r.tag = "Ok"
                          THEN \/ outcome'[f] = OkRec(r.val[1])
                               \/ retval'[f] = Some(r.val[1])
                               \/ interfaces'[f] = Append(interfaces[f], r.val[1])
                          ELSE outcome'[f] = ErrOut("DecodeError")]_vars

\* ------------------------------------------------- claims on the leftovers
\* C27: in the suspending form no message that follows Done is part of a
\* result.  A call iterates over nothing after a Done; the messages that
\* follow Done in its batch are dropped when the call returns and the next
\* call starts from an empty buffer; and no call, the current or a later one,
\* iterates over a message the kernel emitted after the Done of the last
\* request.
C27_NothingAfterDone ==
    LET f == "async"
    IN /\ \A i \in 1..(Len(seen[f]) - 1) : seen[f][i].nl_type # "Done"
       /\ pc[f] # "loop" => res[f] = <<>>
       /\ \A i \in 1..Len(seen[f]) : seen[f][i].dump # 0

\* C27 witness: a data message followed Done in one batch; the suspending
\* get_interfaces_info returned the empty list at the Done and kept nothing,
\* where the blocking one still has the data message buffered.
C27_Witness ==
    /\ \A f \in Forms : query[f] = "get_interfaces_info" /\ pc[f] = "idle"
    /\ Len(seen["async"]) = 1 /\ seen["async"][1].nl_type = "Done"
    /\ outcome["async"] = OkList(<<>>)
    /\ res["async"] = <<>>
    /\ Len(res["sync"]) = 1 /\ res["sync"][1].nl_type = "Data"

====
